---- MODULE Spec2Model ----
(***************************************************************************)
(* REFS recipe extraction server: the POST /api/extract pipeline, the      *)
(* recipe cache, the recent-recipes ledger and the video downloader.       *)
(*                                                                         *)
(* A URL is a sequence of chunks (atomic pieces of text).  '?' is a chunk  *)
(* of its own, a platform marker such as 'tiktok.com' is one chunk, and    *)
(* toLowerCase() acts chunk by chunk.                                      *)
(***************************************************************************)
EXTENDS Integers, Sequences, FiniteSets, TLC

(* ----------------------------- constants ------------------------------ *)

MAX_RECENT == 10
CACHE_TTL_MS == 86400000
MAX_CACHE_SIZE == 50
DESCRIPTION_CHARS == 150

(* ------------------------------- bounds -------------------------------- *)

\* requests submitted in one behaviour
MaxReq == 2
\* clock advances in one behaviour
MaxTicks == 1
\* calls of extractRecipe in one behaviour of the extractor
MaxExtractCalls == 2

Requests == 1..MaxReq

(* ------------------------------- inputs -------------------------------- *)

Min(a, b) == IF a < b THEN a ELSE b

EmptyUrl == << >>

\* The request bodies tried: supported and unsupported, with and without a
\* query string, differing in case only.
Urls ==
    { <<"tiktok.com", "/V">>,
      <<"tiktok.com", "/v", "?", "lang=en">>,
      <<"youtu.be", "/v">>,
      <<"example.com", "/v">>,
      EmptyUrl }

\* A parsed reply of the analysis service.  descKind says what JSON value
\* the description field holds.
NoRecipe == [title |-> "", descKind |-> "null", descLen |-> 0]

Recipes ==
    { [title |-> "", descKind |-> "string", descLen |-> 200],
      [title |-> "Soup", descKind |-> "number", descLen |-> 0] }

FillerRecipe == [title |-> "Seed", descKind |-> "string", descLen |-> 10]

\* The URL of the i-th request served before the behaviour starts.
FillerUrl(i) == <<"youtu.be", ToString(i)>>

(* --------------------------- pure functions ---------------------------- *)

\* String.prototype.toLowerCase on one chunk.
LowerChunk(c) ==
    CASE c = "/V" -> "/v"
      [] c = "TIKTOK.COM" -> "tiktok.com"
      [] c = "YOUTU.BE" -> "youtu.be"
      [] c = "LANG=EN" -> "lang=en"
      [] OTHER -> c

RECURSIVE toLowerCase(_)
toLowerCase(s) ==
    IF s = << >> THEN << >>
    ELSE <<LowerChunk(Head(s))>> \o toLowerCase(Tail(s))

\* url.split('?')[0]: the text before the first '?'.
RECURSIVE BeforeQuery(_)
BeforeQuery(s) ==
    IF s = << >> \/ Head(s) = "?" THEN << >>
    ELSE <<Head(s)>> \o BeforeQuery(Tail(s))

normalizeUrl_NoLower(url) == BeforeQuery(url)

normalizeUrl(url) == toLowerCase(BeforeQuery(url))

\* url.includes(marker)
includes(url, marker) == \E i \in 1..Len(url) : url[i] = marker

supportedPlatforms ==
    {"tiktok.com", "youtube.com/shorts", "youtu.be", "instagram.com/reel", "instagram.com/p"}

isSupported_Any(url) == TRUE

isSupported(url) == \E p \in supportedPlatforms : includes(url, p)

isTikTok_Always(url) == TRUE

isTikTok(url) == includes(url, "tiktok.com")

(* ------------------------------ the cache ------------------------------ *)

\* recipeCache is a Map: here the sequence of its entries in insertion order.
CacheIndex(cache, key) ==
    IF \E i \in 1..Len(cache) : cache[i].key = key
    THEN CHOOSE i \in 1..Len(cache) : cache[i].key = key
    ELSE 0

\* Array.prototype.splice(i, 1), and the removal of one Map entry.
RemoveAt(s, i) == SubSeq(s, 1, i - 1) \o SubSeq(s, i + 1, Len(s))

\* Map.prototype.delete
MapDelete(cache, key) ==
    IF CacheIndex(cache, key) = 0 THEN cache
    ELSE RemoveAt(cache, CacheIndex(cache, key))

MapSet_Merge(cache, key, value) ==
    LET i == CacheIndex(cache, key)
    IN IF i = 0
       THEN Append(cache, [key |-> key, recipe |-> value.recipe, timestamp |-> value.timestamp])
       ELSE [cache EXCEPT ![i] = [key |-> key, recipe |-> value.recipe,
                                  timestamp |-> cache[i].timestamp]]

\* Map.prototype.set: an existing key keeps its place, a new key goes last.
MapSet(cache, key, value) ==
    LET e == [key |-> key, recipe |-> value.recipe, timestamp |-> value.timestamp]
    IN IF CacheIndex(cache, key) = 0 THEN Append(cache, e)
       ELSE [cache EXCEPT ![CacheIndex(cache, key)] = e]

expired_AtTtl(timestamp, t) == t - timestamp >= CACHE_TTL_MS

expired(timestamp, t) == t - timestamp > CACHE_TTL_MS

getCachedRecipe_Miss(cache, url, t) ==
    [hit |-> FALSE, recipe |-> NoRecipe, cache |-> cache]

getCachedRecipe_Touch(cache, url, t) ==
    LET key == normalizeUrl(url)
        i == CacheIndex(cache, key)
    IN IF i = 0 THEN [hit |-> FALSE, recipe |-> NoRecipe, cache |-> cache]
       ELSE IF expired(cache[i].timestamp, t)
            THEN [hit |-> FALSE, recipe |-> NoRecipe, cache |-> MapDelete(cache, key)]
            ELSE [hit |-> TRUE, recipe |-> cache[i].recipe,
                  cache |-> Append(MapDelete(cache, key), cache[i])]

\* The result (hit, recipe) and the cache after the call at time t.
getCachedRecipe(cache, url, t) ==
    LET key == normalizeUrl(url)
        i == CacheIndex(cache, key)
    IN IF i = 0 THEN [hit |-> FALSE, recipe |-> NoRecipe, cache |-> cache]
       ELSE IF expired(cache[i].timestamp, t)
            THEN [hit |-> FALSE, recipe |-> NoRecipe, cache |-> MapDelete(cache, key)]
            ELSE [hit |-> TRUE, recipe |-> cache[i].recipe, cache |-> cache]

cacheRecipe_NoEvict(cache, url, recipe, t) ==
    MapSet(cache, normalizeUrl(url), [recipe |-> recipe, timestamp |-> t])

cacheRecipe(cache, url, recipe, t) ==
    LET key == normalizeUrl(url)
        room == IF Len(cache) >= MAX_CACHE_SIZE
                THEN MapDelete(cache, cache[1].key)
                ELSE cache
    IN MapSet(room, key, [recipe |-> recipe, timestamp |-> t])

cleanupCache_AtTtl(cache, t) ==
    SelectSeq(cache, LAMBDA e : ~expired_AtTtl(e.timestamp, t))

\* cleanupCache(): every entry the read would treat as expired is deleted.

cleanupCache(cache, t) ==
    SelectSeq(cache, LAMBDA e : ~expired(e.timestamp, t))

(* ------------------------------ the ledger ----------------------------- *)

\* recentRecipes.findIndex(entry => normalizeUrl(entry.url) === normalizedUrl):
\* the first match, 0 for none.
findIndex(ledger, normalizedUrl) ==
    LET matches == {i \in 1..Len(ledger) : normalizeUrl(ledger[i].url) = normalizedUrl}
    IN IF matches = {} THEN 0
       ELSE CHOOSE i \in matches : \A j \in matches : i <= j

\* recentRecipes.pop()
Pop(s) == SubSeq(s, 1, Len(s) - 1)

LedgerEntry(url, recipe, t) ==
    [id |-> t,
     url |-> url,
     title |-> IF recipe.title = "" THEN "Untitled Recipe" ELSE recipe.title,
     descLen |-> Min(recipe.descLen, DESCRIPTION_CHARS),
     recipe |-> recipe]

\* (recipe.description || '').substring(0, 150) throws a TypeError when the
\* description is a truthy value that is not a string.
descriptionThrows(recipe) == recipe.descKind \notin {"string", "null"}

addToRecentRecipes_NoDedup(ledger, url, recipe, t) ==
    IF descriptionThrows(recipe) THEN [threw |-> TRUE, ledger |-> ledger]
    ELSE LET added == <<LedgerEntry(url, recipe, t)>> \o ledger
         IN [threw |-> FALSE,
             ledger |-> IF Len(added) > MAX_RECENT THEN Pop(added) ELSE added]

addToRecentRecipes_NoPop(ledger, url, recipe, t) ==
    LET i == findIndex(ledger, normalizeUrl(url))
        spliced == IF i # 0 THEN RemoveAt(ledger, i) ELSE ledger
    IN IF descriptionThrows(recipe) THEN [threw |-> TRUE, ledger |-> spliced]
       ELSE [threw |-> FALSE, ledger |-> <<LedgerEntry(url, recipe, t)>> \o spliced]

addToRecentRecipes_Push(ledger, url, recipe, t) ==
    LET i == findIndex(ledger, normalizeUrl(url))
        spliced == IF i # 0 THEN RemoveAt(ledger, i) ELSE ledger
    IN IF descriptionThrows(recipe) THEN [threw |-> TRUE, ledger |-> spliced]
       ELSE LET added == Append(spliced, LedgerEntry(url, recipe, t))
            IN [threw |-> FALSE,
                ledger |-> IF Len(added) > MAX_RECENT THEN Tail(added) ELSE added]

\* The ledger after the call at time t, and whether the call threw.  The
\* splice runs before the entry is built, so a throwing call has already
\* removed the old entry.
addToRecentRecipes(ledger, url, recipe, t) ==
    LET i == findIndex(ledger, normalizeUrl(url))
        spliced == IF i # 0 THEN RemoveAt(ledger, i) ELSE ledger
    IN IF descriptionThrows(recipe) THEN [threw |-> TRUE, ledger |-> spliced]
       ELSE LET added == <<LedgerEntry(url, recipe, t)>> \o spliced
            IN [threw |-> FALSE,
                ledger |-> IF Len(added) > MAX_RECENT THEN Pop(added) ELSE added]

\* defaultRecipes: the three example entries, in their order.
defaultRecipes ==
    << [id |-> "example-tiktok", url |-> <<"tiktok.com", "/v", "?", "lang=en">>,
        isExample |-> TRUE],
       [id |-> "example-instagram", url |-> <<"instagram.com/reels", "/d">>,
        isExample |-> TRUE],
       [id |-> "example-youtube", url |-> <<"youtube.com/shorts", "/f">>,
        isExample |-> TRUE] >>

getRecent_Dedup(ledger) ==
    [success |-> TRUE,
     recipes |-> ledger \o SelectSeq(defaultRecipes,
                                     LAMBDA d : findIndex(ledger, normalizeUrl(d.url)) = 0)]

\* app.get('/api/recent'): the body of the response.
getRecent(ledger) ==
    [success |-> TRUE, recipes |-> ledger \o defaultRecipes]

(* ---------------------------- the temp files --------------------------- *)

\* A file of TEMP_DIR: the identifier its name starts with, and the rest of
\* its name.
NoFile == [id |-> 0, ext |-> "none"]

File_FixedName(id, ext) == [id |-> 1, ext |-> ext]

File(id, ext) == [id |-> id, ext |-> ext]

\* The extensions yt-dlp gives a finished download.
DownloadExts == {"mp4"}

\* How a yt-dlp run ends: the 'error' event of a missing binary, another
\* 'error' event, 'close' with a nonzero code, 'close' with code 0.
YtdlpOutcomes == {"enoent", "error", "nonzero", "zero"}

\* What a yt-dlp run may leave in TEMP_DIR, by how it ended.
YtdlpFiles(outcome, videoId) ==
    CASE outcome = "zero" -> {NoFile} \cup {File(videoId, e) : e \in DownloadExts}
      [] outcome = "nonzero" -> {NoFile, File(videoId, "mp4.part")}
      [] OTHER -> {NoFile}

\* The message of the error downloadWithYtdlp rejects with.
YtdlpError(outcome) ==
    CASE outcome = "enoent" -> "yt-dlp is not installed"
      [] outcome = "error" -> "spawn error"
      [] outcome = "nonzero" -> "yt-dlp failed"
      [] OTHER -> "Video download completed but file not found"

\* files.find(f => f.startsWith(videoId))
findDownloaded(dir, videoId) ==
    IF \E f \in dir : f.id = videoId
    THEN CHOOSE f \in dir : f.id = videoId
    ELSE NoFile

\* TEMP_DIR after cleanupVideo(videoPath); unlinkOk says whether unlinkSync
\* succeeds when it is called.
cleanupVideo(dir, videoPath, unlinkOk) ==
    IF videoPath \in dir /\ unlinkOk THEN dir \ {videoPath} ELSE dir

(* ----------------------------- the extractor --------------------------- *)

\* getApiKeys(): GEMINI_API_KEY first, GEMINI_API_KEY_2 second, each only
\* when it is set.
getApiKeys(key1Set, key2Set) ==
    (IF key1Set THEN <<"GEMINI_API_KEY">> ELSE << >>)
        \o (IF key2Set THEN <<"GEMINI_API_KEY_2">> ELSE << >>)

\* The messages of the errors a service call fails with.
ServiceErrors == {"429 Too Many Requests", "quota exceeded", "503 Service Unavailable"}

\* The reply texts of the service, as sequences of chunks; '{' and '}' are
\* chunks of their own.
Texts ==
    { <<"Sorry">>,
      <<"}", "oops", "{">>,
      <<"{", "soup", "}", "}">>,
      <<"Here:", "{", "soup", "}", "Enjoy">>,
      <<"{", "plain", "}">> }

\* What one service call ends with: an error, or a reply text.
Replies ==
    {[kind |-> "error", message |-> m, text |-> << >>] : m \in ServiceErrors}
        \cup {[kind |-> "text", message |-> "", text |-> t] : t \in Texts}

Places(text, chunk) == {i \in 1..Len(text) : text[i] = chunk}

\* text.match(/\{[\s\S]*\}/): from the first '{' to the last '}' after
\* it; the empty sequence for null.
jsonMatch(text) ==
    LET opens == Places(text, "{")
        first == CHOOSE i \in opens : \A j \in opens : i <= j
        closes == {j \in Places(text, "}") : j > first}
        last == CHOOSE j \in closes : \A k \in closes : k <= j
    IN IF opens = {} THEN << >>
       ELSE IF closes = {} THEN << >>
       ELSE SubSeq(text, first, last)

\* JSON.parse(span): the recipe, or a SyntaxError.
JSONparse(span) ==
    CASE span = <<"{", "soup", "}">> ->
            [threw |-> FALSE, recipe |-> [title |-> "Soup", descKind |-> "number", descLen |-> 0]]
      [] span = <<"{", "plain", "}">> ->
            [threw |-> FALSE, recipe |-> [title |-> "", descKind |-> "string", descLen |-> 200]]
      [] OTHER -> [threw |-> TRUE, recipe |-> NoRecipe]

\* The body of the try block for one key, given what the service call
\* ended with: the recipe returned, or the error caught.
tryKey(reply) ==
    IF reply.kind = "error"
    THEN [threw |-> TRUE, error |-> reply.message, recipe |-> NoRecipe]
    ELSE IF jsonMatch(reply.text) = << >>
    THEN [threw |-> TRUE, error |-> "No valid JSON found in response", recipe |-> NoRecipe]
    ELSE IF JSONparse(jsonMatch(reply.text)).threw
    THEN [threw |-> TRUE, error |-> "SyntaxError", recipe |-> NoRecipe]
    ELSE [threw |-> FALSE, error |-> "", recipe |-> JSONparse(jsonMatch(reply.text)).recipe]

\* The frame of extractRecipe: its position, the loop index i, lastError,
\* the value returned or the error thrown, what the service calls of this
\* call ended with, the keys the service was called with, the service calls
\* made, whether the video was read, and the calls of extractRecipe so far.
IdleExtract ==
    [pc |-> "idle", i |-> 0, lastError |-> "", result |-> NoRecipe, error |-> "",
     replies |-> << >>, tried |-> << >>, nService |-> 0, fileRead |-> FALSE,
     calls |-> 0]

(* ------------------------------ the state ------------------------------ *)

VARIABLES
    recipeCache,    \* the Map of cache entries, in insertion order
    recentRecipes,  \* the live ledger, most recent first
    tempDir,        \* the files of TEMP_DIR
    now,            \* Date.now()
    nextId,         \* the next randomUUID()
    req,            \* the requests: position in the handler and its locals;
                    \* primaryError is the error downloadVideo has caught
    ticks,          \* the clock advances so far
    apiKeys,        \* getApiKeys(): the configured keys, in order
    ex              \* the frame of the extractRecipe call under way

vars == <<recipeCache, recentRecipes, tempDir, now, nextId, req, ticks, apiKeys, ex>>

extractVars == <<apiKeys, ex>>

serverVars == <<recipeCache, recentRecipes, tempDir, now, nextId, req, ticks>>

NoResponse ==
    [status |-> 0, success |-> FALSE, cached |-> "absent", recipe |-> NoRecipe, error |-> ""]

IdleRequest ==
    [pc |-> "idle", url |-> EmptyUrl, videoId |-> 0, videoPath |-> NoFile,
     ids |-> {}, primaryError |-> "", recipe |-> NoRecipe, error |-> "",
     resp |-> NoResponse,
     nDownload |-> 0, nFallback |-> 0, nExtract |-> 0,
     nCleanup |-> 0, nUnlink |-> 0, nUnlinkFailed |-> 0]

\* The state after n requests for n different URLs have been served at
\* time 0: n cache entries, and the last MAX_RECENT of them in the ledger.

PrefilledCache(n) ==
    SubSeq([i \in 1..n |->
               [key |-> normalizeUrl(FillerUrl(i)), recipe |-> FillerRecipe, timestamp |-> 0]],
           1, n)

PrefilledLedger(n) ==
    SubSeq([i \in 1..Min(n, MAX_RECENT) |-> LedgerEntry(FillerUrl(n + 1 - i), FillerRecipe, 0)],
           1, Min(n, MAX_RECENT))

Served(n) ==
    /\ recipeCache = PrefilledCache(n)
    /\ recentRecipes = PrefilledLedger(n)
    /\ tempDir = {}
    /\ now = 0
    /\ nextId = 1
    /\ req = [r \in Requests |-> IdleRequest]
    /\ ticks = 0
    /\ ex = IdleExtract

\* The server after start-up, both keys configured.
Init == Served(0) /\ apiKeys = getApiKeys(TRUE, TRUE)

\* The server with its cache and its ledger filled to capacity.
InitFull == Served(MAX_CACHE_SIZE) /\ apiKeys = getApiKeys(TRUE, TRUE)

\* The server after start-up, under each configuration of the two keys.
InitExtract ==
    /\ Served(0)
    /\ \E k1 \in BOOLEAN, k2 \in BOOLEAN : apiKeys = getApiKeys(k1, k2)

\* The URL two concurrent requests ask for in InitBusy.
DuplicateUrl == <<"tiktok.com", "/v", "?", "lang=en">>

\* The server under load: two requests for DuplicateUrl both missed the
\* empty cache; one has been served and wrote the first cache entry, 48
\* requests for other URLs have been served after it, all at time 0, and
\* the other request for DuplicateUrl is still at its extractRecipe call.
InitBusy ==
    /\ recipeCache =
          <<[key |-> normalizeUrl(DuplicateUrl), recipe |-> FillerRecipe, timestamp |-> 0]>>
             \o SubSeq(PrefilledCache(MAX_CACHE_SIZE - 1), 2, MAX_CACHE_SIZE - 1)
    /\ recentRecipes = PrefilledLedger(MAX_CACHE_SIZE - 1)
    /\ tempDir = {File(1, "mp4")}
    /\ now = 0
    /\ nextId = 2
    /\ req = [r \in Requests |->
                 IF r = 1
                 THEN [IdleRequest EXCEPT !.pc = "extract", !.url = DuplicateUrl,
                                          !.videoId = 1, !.videoPath = File(1, "mp4"),
                                          !.ids = {1}, !.nDownload = 1, !.nExtract = 1]
                 ELSE IdleRequest]
    /\ ticks = 0
    /\ ex = IdleExtract
    /\ apiKeys = getApiKeys(TRUE, TRUE)

(* ----------------------------- the handler ----------------------------- *)

Response(status, success, cached, recipe, error) ==
    [status |-> status, success |-> success, cached |-> cached, recipe |-> recipe,
     error |-> error]

CachedResponse_NoFlag(recipe) == Response(200, TRUE, "absent", recipe, "")

\* The success response of a cache hit: cached: true.
CachedResponse(recipe) == Response(200, TRUE, "true", recipe, "")

\* The success response after an extraction: no cached field.
FreshResponse(recipe) == Response(200, TRUE, "absent", recipe, "")

Submit_RejectDuplicate(r, url) ==
    /\ req[r].pc = "idle"
    /\ IF r = 1 THEN TRUE ELSE req[r - 1].pc # "idle"
    /\ LET rq == [req[r] EXCEPT !.url = url]
           g == getCachedRecipe(recipeCache, url, now)
           a == addToRecentRecipes(recentRecipes, url, g.recipe, now)
           bad == IF url = EmptyUrl
                  THEN Response(400, FALSE, "absent", NoRecipe, "Please provide a video URL")
                  ELSE Response(400, FALSE, "absent", NoRecipe, "Unsupported platform")
           hitResp == IF a.threw
                      THEN Response(500, FALSE, "absent", NoRecipe, "TypeError")
                      ELSE CachedResponse(g.recipe)
           busy == \E o \in Requests \ {r} :
                      /\ req[o].pc \in {"ytdlp", "fallback", "extract", "store"}
                      /\ normalizeUrl(req[o].url) = normalizeUrl(url)
           dup == Response(500, FALSE, "absent", NoRecipe, "Already processing")
       IN IF url = EmptyUrl \/ ~isSupported(url)
          THEN /\ req' = [req EXCEPT ![r] = [rq EXCEPT !.pc = "done", !.resp = bad]]
               /\ UNCHANGED <<recipeCache, recentRecipes, nextId>>
          ELSE IF busy
          THEN /\ req' = [req EXCEPT ![r] = [rq EXCEPT !.pc = "done", !.resp = dup]]
               /\ UNCHANGED <<recipeCache, recentRecipes, nextId>>
          ELSE IF g.hit
          THEN /\ req' = [req EXCEPT ![r] = [rq EXCEPT !.pc = "done", !.resp = hitResp]]
               /\ recipeCache' = g.cache
               /\ recentRecipes' = a.ledger
               /\ UNCHANGED nextId
          ELSE /\ req' = [req EXCEPT ![r] =
                            [rq EXCEPT !.pc = "ytdlp", !.videoId = nextId,
                                       !.ids = {nextId}, !.nDownload = 1]]
               /\ recipeCache' = g.cache
               /\ nextId' = nextId + 1
               /\ UNCHANGED recentRecipes
    /\ UNCHANGED <<tempDir, now, ticks>>
    /\ UNCHANGED extractVars

\* app.post('/api/extract'), from the start of the handler to its first
\* await or to its response.
Submit(r, url) ==
    /\ req[r].pc = "idle"
    /\ IF r = 1 THEN TRUE ELSE req[r - 1].pc # "idle"
    /\ LET rq == [req[r] EXCEPT !.url = url]
           g == getCachedRecipe(recipeCache, url, now)
           a == addToRecentRecipes(recentRecipes, url, g.recipe, now)
           bad == IF url = EmptyUrl
                  THEN Response(400, FALSE, "absent", NoRecipe, "Please provide a video URL")
                  ELSE Response(400, FALSE, "absent", NoRecipe, "Unsupported platform")
           hitResp == IF a.threw
                      THEN Response(500, FALSE, "absent", NoRecipe, "TypeError")
                      ELSE CachedResponse(g.recipe)
       IN IF url = EmptyUrl \/ ~isSupported(url)
          THEN /\ req' = [req EXCEPT ![r] = [rq EXCEPT !.pc = "done", !.resp = bad]]
               /\ UNCHANGED <<recipeCache, recentRecipes, nextId>>
          ELSE IF g.hit
          THEN /\ req' = [req EXCEPT ![r] = [rq EXCEPT !.pc = "done", !.resp = hitResp]]
               /\ recipeCache' = g.cache
               /\ recentRecipes' = a.ledger
               /\ UNCHANGED nextId
          ELSE /\ req' = [req EXCEPT ![r] =
                            [rq EXCEPT !.pc = "ytdlp", !.videoId = nextId,
                                       !.ids = {nextId}, !.nDownload = 1]]
               /\ recipeCache' = g.cache
               /\ nextId' = nextId + 1
               /\ UNCHANGED recentRecipes
    /\ UNCHANGED <<tempDir, now, ticks>>
    /\ UNCHANGED extractVars

downloadVideoError_Generic(message) == "Failed to download video"

\* A url of the request body that is a JSON number: truthy, not a string.
NonStringUrl == <<"#123">>

\* The handler called with a url that is not a string: !url is false and
\* url.includes(platform) throws a TypeError outside the try block, so the
\* promise of the async handler rejects.  What follows is the framework's
\* doing: it forwards the rejection to its error handler, which answers
\* 500 with an error page, or it leaves the rejection unhandled and the
\* request is never answered.
SubmitNonString(r, forwarded) ==
    /\ req[r].pc = "idle"
    /\ IF r = 1 THEN TRUE ELSE req[r - 1].pc # "idle"
    /\ LET rq == [req[r] EXCEPT !.url = NonStringUrl, !.error = "TypeError"]
           page == Response(500, FALSE, "absent", NoRecipe, "Internal Server Error")
       IN req' = [req EXCEPT ![r] = IF forwarded
                                    THEN [rq EXCEPT !.pc = "done", !.resp = page]
                                    ELSE [rq EXCEPT !.pc = "rejected"]]
    /\ UNCHANGED <<recipeCache, recentRecipes, tempDir, now, nextId, ticks>>
    /\ UNCHANGED extractVars

\* The message downloadVideo throws for a primary failure that has no
\* fallback.
downloadVideoError(message) ==
    IF message = "yt-dlp failed" THEN "Video is too large or too long"
    ELSE "Failed to download video"

\* The catch block of the handler when videoPath is still null: the 500
\* response.
FailNoVideo(r, rq, error) ==
    LET resp == Response(500, FALSE, "absent", NoRecipe, error)
    IN /\ req' = [req EXCEPT ![r] = [rq EXCEPT !.pc = "done", !.error = error, !.resp = resp]]

\* downloadVideo has returned videoPath: the handler calls extractRecipe.
StartExtract(r, videoPath, newIds) ==
    /\ req' = [req EXCEPT ![r] =
                  [@ EXCEPT !.pc = "extract", !.videoPath = videoPath, !.primaryError = "",
                            !.ids = @ \cup newIds, !.nExtract = @ + 1]]

\* The yt-dlp process of request r ends, and downloadVideo goes on: returns
\* the file, starts the fallback, or throws into the handler's catch block.
YtdlpDone(r, outcome, written) ==
    /\ req[r].pc = "ytdlp"
    /\ written \in YtdlpFiles(outcome, req[r].videoId)
    /\ LET dir == IF written = NoFile THEN tempDir ELSE tempDir \cup {written}
           found == findDownloaded(dir, req[r].videoId)
           message == YtdlpError(outcome)
           caught == [req[r] EXCEPT !.primaryError = message]
       IN /\ tempDir' = dir
          /\ IF outcome = "zero" /\ found # NoFile
             THEN StartExtract(r, found, {})
             ELSE IF isTikTok(req[r].url)
             THEN /\ req' = [req EXCEPT ![r] =
                               [caught EXCEPT !.pc = "fallback", !.nFallback = @ + 1]]
             ELSE FailNoVideo(r, caught, downloadVideoError(message))
    /\ UNCHANGED <<recipeCache, recentRecipes, now, nextId, ticks>>
    /\ UNCHANGED extractVars

FallbackDone_PrimaryPath(r, ok) ==
    /\ req[r].pc = "fallback"
    /\ IF ok
       THEN /\ tempDir' = tempDir \cup {File(nextId, "mp4")}
            /\ nextId' = nextId + 1
            /\ StartExtract(r, File(req[r].videoId, "mp4"), {nextId})
       ELSE /\ FailNoVideo(r, [req[r] EXCEPT !.primaryError = ""],
                            "Failed to download TikTok video")
            /\ UNCHANGED <<tempDir, nextId>>
    /\ UNCHANGED <<recipeCache, recentRecipes, now, ticks>>
    /\ UNCHANGED extractVars

\* downloadTikTokFallback ends: the file is written under a fresh
\* identifier, or any failure is rethrown as one error.
FallbackDone(r, ok) ==
    /\ req[r].pc = "fallback"
    /\ IF ok
       THEN /\ tempDir' = tempDir \cup {File(nextId, "mp4")}
            /\ nextId' = nextId + 1
            /\ StartExtract(r, File(nextId, "mp4"), {nextId})
       ELSE /\ FailNoVideo(r, [req[r] EXCEPT !.primaryError = ""],
                            "Failed to download TikTok video")
            /\ UNCHANGED <<tempDir, nextId>>
    /\ UNCHANGED <<recipeCache, recentRecipes, now, ticks>>
    /\ UNCHANGED extractVars

\* The request after a call of cleanupVideo(videoPath) that left dirAfter:
\* the calls, the files deleted and the failed unlinkSync calls so far.
Cleaned(rq, dir, dirAfter, unlinkOk) ==
    [rq EXCEPT !.nCleanup = @ + 1,
               !.nUnlink = IF rq.videoPath \in dir \ dirAfter THEN @ + 1 ELSE @,
               !.nUnlinkFailed = IF rq.videoPath \in dir /\ ~unlinkOk THEN @ + 1 ELSE @]

CatchWithVideo_NoCleanup(r, rq, error, unlinkOk) ==
    /\ tempDir' = tempDir
    /\ req' = [req EXCEPT ![r] = [rq EXCEPT !.pc = "catch", !.error = error]]

\* The catch block of the handler when videoPath is set: it calls
\* cleanupVideo and awaits it.
CatchWithVideo(r, rq, error, unlinkOk) ==
    /\ tempDir' = cleanupVideo(tempDir, rq.videoPath, unlinkOk)
    /\ req' = [req EXCEPT ![r] =
                  [Cleaned(rq, tempDir, cleanupVideo(tempDir, rq.videoPath, unlinkOk), unlinkOk)
                      EXCEPT !.pc = "catch", !.error = error]]

ExtractDone_IgnoresFailure(r, ok, recipe, unlinkOk) ==
    /\ req[r].pc = "extract"
    /\ IF ok THEN recipe \in Recipes ELSE recipe = NoRecipe
    /\ tempDir' = cleanupVideo(tempDir, req[r].videoPath, unlinkOk)
    /\ req' = [req EXCEPT ![r] =
                  [Cleaned(@, tempDir, cleanupVideo(tempDir, req[r].videoPath, unlinkOk), unlinkOk)
                      EXCEPT !.pc = "store", !.recipe = recipe]]
    /\ UNCHANGED <<recipeCache, recentRecipes, now, nextId, ticks>>
    /\ UNCHANGED extractVars

\* extractRecipe ends.  On success the handler calls cleanupVideo and
\* awaits it; on failure the catch block does.
ExtractDone(r, ok, recipe, unlinkOk) ==
    /\ req[r].pc = "extract"
    /\ IF ok THEN recipe \in Recipes ELSE recipe = NoRecipe
    /\ IF ok
       THEN /\ tempDir' = cleanupVideo(tempDir, req[r].videoPath, unlinkOk)
            /\ req' = [req EXCEPT ![r] =
                          [Cleaned(@, tempDir, cleanupVideo(tempDir, req[r].videoPath, unlinkOk), unlinkOk)
                              EXCEPT !.pc = "store", !.recipe = recipe]]
       ELSE CatchWithVideo(r, req[r], "extraction failed", unlinkOk)
    /\ UNCHANGED <<recipeCache, recentRecipes, now, nextId, ticks>>
    /\ UNCHANGED extractVars

Store_LedgerOnly(r, unlinkOk) ==
    /\ req[r].pc = "store"
    /\ LET rq == req[r]
           a == addToRecentRecipes(recentRecipes, rq.url, rq.recipe, now)
           resp == FreshResponse(rq.recipe)
       IN /\ recipeCache' = recipeCache
          /\ recentRecipes' = a.ledger
          /\ IF a.threw
             THEN /\ CatchWithVideo(r, rq, "TypeError", unlinkOk)
             ELSE /\ unlinkOk
                  /\ tempDir' = tempDir
                  /\ req' = [req EXCEPT ![r] = [rq EXCEPT !.pc = "done", !.resp = resp]]
    /\ UNCHANGED <<now, nextId, ticks>>
    /\ UNCHANGED extractVars

\* After the awaited cleanup: cacheRecipe, addToRecentRecipes and the
\* success response; a throwing ledger update enters the catch block.
Store(r, unlinkOk) ==
    /\ req[r].pc = "store"
    /\ LET rq == req[r]
           c == cacheRecipe(recipeCache, rq.url, rq.recipe, now)
           a == addToRecentRecipes(recentRecipes, rq.url, rq.recipe, now)
           resp == FreshResponse(rq.recipe)
       IN /\ recipeCache' = c
          /\ recentRecipes' = a.ledger
          /\ IF a.threw
             THEN /\ CatchWithVideo(r, rq, "TypeError", unlinkOk)
             ELSE /\ unlinkOk  \* no cleanupVideo call on this path: one step, not two
                  /\ tempDir' = tempDir
                  /\ req' = [req EXCEPT ![r] = [rq EXCEPT !.pc = "done", !.resp = resp]]
    /\ UNCHANGED <<now, nextId, ticks>>
    /\ UNCHANGED extractVars

Fail_WithRecipe(r) ==
    /\ req[r].pc = "catch"
    /\ LET resp == Response(500, FALSE, "absent", req[r].recipe, req[r].error)
       IN req' = [req EXCEPT ![r] = [@ EXCEPT !.pc = "done", !.resp = resp]]
    /\ UNCHANGED <<recipeCache, recentRecipes, tempDir, now, nextId, ticks>>
    /\ UNCHANGED extractVars

\* The end of the catch block after its awaited cleanup: the 500 response.
Fail(r) ==
    /\ req[r].pc = "catch"
    /\ LET resp == Response(500, FALSE, "absent", NoRecipe, req[r].error)
       IN req' = [req EXCEPT ![r] = [@ EXCEPT !.pc = "done", !.resp = resp]]
    /\ UNCHANGED <<recipeCache, recentRecipes, tempDir, now, nextId, ticks>>
    /\ UNCHANGED extractVars

(* ------------------------- the clock, the sweep ------------------------ *)

\* The clock advances, to the last instant of an entry's life or past it.
Tick(d) ==
    /\ ticks < MaxTicks
    /\ now' = now + d
    /\ ticks' = ticks + 1
    /\ UNCHANGED <<recipeCache, recentRecipes, tempDir, nextId, req>>
    /\ UNCHANGED extractVars

\* setInterval(cleanupCache, one hour)
Sweep ==
    /\ recipeCache' = cleanupCache(recipeCache, now)
    /\ UNCHANGED <<recentRecipes, tempDir, now, nextId, req, ticks>>
    /\ UNCHANGED extractVars

Next ==
    \/ \E r \in Requests, url \in Urls : Submit(r, url)
    \/ \E r \in Requests, outcome \in YtdlpOutcomes, e \in {"none", "mp4", "mp4.part"} :
          YtdlpDone(r, outcome, IF e = "none" THEN NoFile ELSE File(req[r].videoId, e))
    \/ \E r \in Requests, ok \in BOOLEAN : FallbackDone(r, ok)
    \/ \E r \in Requests, ok \in BOOLEAN, recipe \in Recipes \cup {NoRecipe}, unlinkOk \in BOOLEAN :
          ExtractDone(r, ok, recipe, unlinkOk)
    \/ \E r \in Requests, unlinkOk \in BOOLEAN : Store(r, unlinkOk)
    \/ \E r \in Requests : Fail(r)
    \/ \E d \in {CACHE_TTL_MS, CACHE_TTL_MS + 1} : Tick(d)
    \/ Sweep

\* The server with request bodies of any JSON type.
NextAnyBody ==
    \/ Next
    \/ \E r \in Requests, forwarded \in BOOLEAN : SubmitNonString(r, forwarded)

(* ---------------------------- extractRecipe ---------------------------- *)

extractRecipeStart_NoKeyCheck(readable) ==
    LET frame == [IdleExtract EXCEPT !.calls = ex.calls + 1]
    IN /\ ex.pc \in {"idle", "returned", "threw"}
       /\ ex.calls < MaxExtractCalls
       /\ ex' = IF ~readable
                THEN [frame EXCEPT !.pc = "threw", !.error = "ENOENT"]
                ELSE IF Len(apiKeys) = 0
                THEN [frame EXCEPT !.pc = "threw", !.fileRead = TRUE,
                                   !.error = "All API keys failed"]
                ELSE [frame EXCEPT !.pc = "call", !.fileRead = TRUE, !.nService = 1,
                                   !.tried = <<apiKeys[1]>>]
       /\ UNCHANGED <<apiKeys, serverVars>>

\* extractRecipe(videoPath) from its start to its first await: the check
\* of the keys, readFileSync, and the service call with the first key.
extractRecipeStart(readable) ==
    LET frame == [IdleExtract EXCEPT !.calls = ex.calls + 1]
    IN /\ ex.pc \in {"idle", "returned", "threw"}
       /\ ex.calls < MaxExtractCalls
       /\ ex' = IF Len(apiKeys) = 0
                THEN [frame EXCEPT !.pc = "threw",
                                   !.error = "GEMINI_API_KEY is not configured"]
                ELSE IF ~readable
                THEN [frame EXCEPT !.pc = "threw", !.error = "ENOENT"]
                ELSE [frame EXCEPT !.pc = "call", !.fileRead = TRUE, !.nService = 1,
                                   !.tried = <<apiKeys[1]>>]
       /\ UNCHANGED <<apiKeys, serverVars>>

\* The frame after the catch block has caught error in iteration i: the
\* next key is tried, or lastError is thrown after the last key.
caught_Rethrow(frame, error) ==
    [frame EXCEPT !.lastError = error, !.pc = "threw", !.error = error]

caught_FirstError(frame, error) ==
    LET first == IF frame.lastError = "" THEN error ELSE frame.lastError
    IN IF frame.i + 1 < Len(apiKeys)
       THEN [frame EXCEPT !.lastError = first, !.i = @ + 1, !.nService = @ + 1,
                          !.tried = Append(@, apiKeys[frame.i + 2])]
       ELSE [frame EXCEPT !.lastError = first, !.i = @ + 1, !.pc = "threw", !.error = first]

\* error.message.includes('429') || error.message.includes('quota')
isRateLimit(error) == error \in {"429 Too Many Requests", "quota exceeded"}

caught_RateLimitOnly(frame, error) ==
    IF frame.i + 1 < Len(apiKeys) /\ isRateLimit(error)
    THEN [frame EXCEPT !.lastError = error, !.i = @ + 1, !.nService = @ + 1,
                       !.tried = Append(@, apiKeys[frame.i + 2])]
    ELSE [frame EXCEPT !.lastError = error, !.i = @ + 1, !.pc = "threw", !.error = error]

caught(frame, error) ==
    IF frame.i + 1 < Len(apiKeys)
    THEN [frame EXCEPT !.lastError = error, !.i = @ + 1, !.nService = @ + 1,
                       !.tried = Append(@, apiKeys[frame.i + 2])]
    ELSE [frame EXCEPT !.lastError = error, !.i = @ + 1, !.pc = "threw",
                       !.error = IF error = "" THEN "All API keys failed" ELSE error]

\* The service call with apiKeys[i] ends: one iteration of the loop, up to
\* the return, the next service call, or the throw after the loop.
KeyReply(reply) ==
    /\ ex.pc = "call"
    /\ LET t == tryKey(reply)
           frame == [ex EXCEPT !.replies = Append(@, reply)]
       IN ex' = IF t.threw THEN caught(frame, t.error)
                ELSE [frame EXCEPT !.pc = "returned", !.result = t.recipe]
    /\ UNCHANGED <<apiKeys, serverVars>>

NextExtract ==
    \/ \E readable \in BOOLEAN : extractRecipeStart(readable)
    \/ \E reply \in Replies : KeyReply(reply)

Spec == Init /\ [][Next]_vars

\* extractRecipe alone, called up to MaxExtractCalls times.
SpecExtract == InitExtract /\ [][NextExtract]_vars

SpecFull == InitFull /\ [][Next]_vars

SpecBusy == InitBusy /\ [][Next]_vars

SpecAnyBody == Init /\ [][NextAnyBody]_vars

(* ------------------------------ the claims ----------------------------- *)

\* The key of a URL as the claims define it: everything from the first '?'
\* removed, the remainder lowercased.
ClaimKey(url) == toLowerCase(BeforeQuery(url))

\* The recipes whose description is a string or absent.
WellFormed == {r \in Recipes \cup {FillerRecipe} : r.descKind \in {"string", "null"}}

Finished(r) == req[r].pc = "done"

\* C1: when a request for a URL is submitted directly after the success
\* response to the only earlier request, which was for the same URL, and at
\* the same clock reading, it is answered at once with cached: true and the
\* recipe of the first response, and downloadVideo and extractRecipe have
\* each run at most once for the two requests together.
C1_SecondRequestServedFromCache ==
    [][\A r1 \in Requests, r2 \in Requests :
          ( /\ r1 # r2
            /\ \A o \in Requests \ {r1, r2} : req[o].pc = "idle"
            /\ Finished(r1) /\ req[r1].resp.success
            /\ recentRecipes # << >> /\ recentRecipes[1].id = now
            /\ req[r2].pc = "idle" /\ req'[r2].pc # "idle"
            /\ req'[r2].url = req[r1].url )
          => ( /\ req'[r2].pc = "done"
               /\ req'[r2].resp.success
               /\ req'[r2].resp.cached = "true"
               /\ req'[r2].resp.recipe = req[r1].resp.recipe
               /\ req[r1].nDownload + req'[r2].nDownload <= 1
               /\ req[r1].nExtract + req'[r2].nExtract <= 1 )]_vars

\* The first request was extracted afresh and answered, the second one for
\* the same URL was answered from the cache before the clock moved.
C1_Witness ==
    \E r1 \in Requests, r2 \in Requests :
        /\ Finished(r1) /\ req[r1].resp.success
        /\ req[r1].nDownload = 1 /\ req[r1].nExtract = 1
        /\ Finished(r2) /\ req[r2].url = req[r1].url
        /\ req[r2].resp.cached = "true" /\ req[r2].resp.recipe = req[r1].resp.recipe
        /\ req[r2].nDownload = 0
        /\ ticks = 0

\* C2: once a request has its response, TEMP_DIR holds no file whose name
\* starts with an identifier generated for that request.
C2_NoFileLeftBehind ==
    \A r \in Requests :
        Finished(r) => \A f \in tempDir : f.id \notin req[r].ids

\* C3 as stated: a file that downloadVideo returned has been deleted exactly
\* once when the request ends.
C3_DeletedExactlyOnce ==
    \A r \in Requests :
        (Finished(r) /\ req[r].videoPath # NoFile) => req[r].nUnlink = 1

\* C3 as amended: for a file that downloadVideo returned, cleanupVideo has
\* been called before the request ends, on every exit path; the file is
\* deleted at most once, and exactly once unless an unlinkSync call failed.
C3_CleanupOnEveryPath ==
    \A r \in Requests :
        (Finished(r) /\ req[r].videoPath # NoFile)
        => /\ req[r].nCleanup >= 1
           /\ req[r].nUnlink <= 1
           /\ req[r].nUnlinkFailed = 0
                 => (req[r].nUnlink = 1 /\ req[r].videoPath \notin tempDir)

\* A request whose extraction failed after a download has ended, its file
\* deleted by the catch block.
C3_Witness ==
    \E r \in Requests :
        /\ Finished(r) /\ req[r].videoPath # NoFile
        /\ ~req[r].resp.success /\ req[r].error = "extraction failed"
        /\ req[r].nUnlink = 1 /\ req[r].videoPath \notin tempDir

\* C4: for all URLs u1 and u2 with the same key, cacheRecipe(u1, r) followed
\* by getCachedRecipe(u2) returns r when at most the TTL has passed in
\* between, on every cache the server can hold.
C4_PutThenGetReturnsRecipe ==
    \A u1 \in Urls, u2 \in Urls, r \in Recipes, d \in {0, CACHE_TTL_MS} :
        ClaimKey(u1) = ClaimKey(u2)
        => LET g == getCachedRecipe(cacheRecipe(recipeCache, u1, r, now), u2, now + d)
           IN g.hit /\ g.recipe = r

\* A recipe cached under one URL was served to a request for another URL of
\* the same key.
C4_Witness ==
    \E r1 \in Requests, r2 \in Requests :
        /\ Finished(r1) /\ req[r1].resp.success /\ req[r1].nExtract = 1
        /\ Finished(r2) /\ req[r2].resp.cached = "true"
        /\ req[r1].url # req[r2].url
        /\ ClaimKey(req[r1].url) = ClaimKey(req[r2].url)
        /\ req[r2].resp.recipe = req[r1].resp.recipe

StoredAt(url) ==
    {i \in 1..Len(recipeCache) : recipeCache[i].key = ClaimKey(url)}

\* C5: for every stored entry, getCachedRecipe returns null when
\* now - timestamp is greater than the TTL, swept or not, and the stored
\* recipe when now - timestamp is at most the TTL.
C5_ExpiryOnRead ==
    \A url \in Urls : \A i \in StoredAt(url) :
        LET g == getCachedRecipe(recipeCache, url, now)
        IN IF now - recipeCache[i].timestamp > CACHE_TTL_MS
           THEN ~g.hit /\ g.recipe = NoRecipe
           ELSE g.hit /\ g.recipe = recipeCache[i].recipe

\* An entry older than the TTL is still stored, and a request for its key
\* has gone on to download.
C5_Witness ==
    \E r \in Requests, r2 \in Requests :
        /\ Finished(r) /\ req[r].resp.success /\ req[r].nExtract = 1
        /\ \E i \in StoredAt(req[r].url) : now - recipeCache[i].timestamp > CACHE_TTL_MS
        /\ req[r2].pc = "ytdlp"

\* The age of a stored entry is exactly the TTL and a request was served it.
C5_WitnessAtTtl ==
    \E r \in Requests :
        /\ Finished(r) /\ req[r].resp.cached = "true"
        /\ \E i \in StoredAt(req[r].url) : now - recipeCache[i].timestamp = CACHE_TTL_MS

\* C6: in every reachable state the cache holds at most MAX_CACHE_SIZE
\* entries.
C6_CacheBounded == Len(recipeCache) <= MAX_CACHE_SIZE

\* A request has written a new key into the full cache: the oldest entry
\* is gone and the cache is full again.
C6_Witness ==
    /\ Len(recipeCache) = MAX_CACHE_SIZE
    /\ recipeCache[1].key # ClaimKey(FillerUrl(1))
    /\ \E r \in Requests :
          /\ Finished(r) /\ req[r].resp.success /\ req[r].nExtract = 1
          /\ StoredAt(req[r].url) # {}

KeyCount(ledger, url) ==
    Cardinality({i \in 1..Len(ledger) : ClaimKey(ledger[i].url) = ClaimKey(url)})

C8_OneEntryPerKey ==
    \A i \in 1..Len(recentRecipes), j \in 1..Len(recentRecipes) :
        i # j => ClaimKey(recentRecipes[i].url) # ClaimKey(recentRecipes[j].url)

\* Two requests for one key have both been recorded.
C8_Witness ==
    \E r1 \in Requests, r2 \in Requests :
        /\ r1 # r2
        /\ Finished(r1) /\ req[r1].resp.success
        /\ Finished(r2) /\ req[r2].resp.success
        /\ ClaimKey(req[r1].url) = ClaimKey(req[r2].url)
        /\ KeyCount(recentRecipes, req[r1].url) = 1

\* C9: in every reachable state the ledger has at most MAX_RECENT entries.
C9_LedgerBounded == Len(recentRecipes) <= MAX_RECENT

\* A request was recorded in the full ledger: its entry is at the head and
\* the ledger is full again.
C9_Witness ==
    /\ Len(recentRecipes) = MAX_RECENT
    /\ \E r \in Requests :
          /\ Finished(r) /\ req[r].resp.success
          /\ recentRecipes[1].url = req[r].url

\* The primary strategy of the request has failed.
PrimaryFailed(r) ==
    /\ req[r].nDownload = 1
    /\ req[r].pc # "ytdlp"
    /\ req[r].videoPath.id # req[r].videoId

\* C10: for a URL that does not contain 'tiktok.com', a failure of the
\* primary strategy makes downloadVideo throw an acquisition error, which
\* ends the request, and the fallback is never called.
C10_NoFallbackOffPlatform ==
    \A r \in Requests :
        (PrimaryFailed(r) /\ ~includes(req[r].url, "tiktok.com"))
        => /\ Finished(r)
           /\ req[r].resp.status = 500 /\ ~req[r].resp.success
           /\ req[r].resp.error \in {"Video is too large or too long", "Failed to download video"}
           /\ req[r].nFallback = 0
           /\ req[r].nExtract = 0

C10_Witness ==
    \E r \in Requests :
        /\ PrimaryFailed(r) /\ ~includes(req[r].url, "tiktok.com")
        /\ req[r].resp.error = "Failed to download video"

\* C11: for a URL that contains 'tiktok.com', when the primary strategy has
\* failed and the fallback then writes its file, downloadVideo returns the
\* path of that file: the handler goes on to extractRecipe with it and no
\* error has reached it.
C11_FallbackFileReturned ==
    [][\A r \in Requests :
          ( /\ req[r].pc = "fallback" /\ req'[r].pc # "fallback"
            /\ includes(req[r].url, "tiktok.com")
            /\ req[r].primaryError # ""
            /\ tempDir' # tempDir )
          => ( /\ req'[r].pc = "extract"
               /\ req'[r].videoPath \in tempDir' \ tempDir
               /\ req'[r].videoPath.id # req[r].videoId
               /\ req'[r].error = ""
               /\ req'[r].resp = NoResponse )]_vars

\* A request for a TikTok URL is extracting from the file its fallback
\* wrote after the primary strategy failed.
C11_Witness ==
    \E r \in Requests :
        /\ includes(req[r].url, "tiktok.com")
        /\ req[r].nFallback = 1 /\ req[r].pc = "extract"
        /\ req[r].videoPath \in tempDir
        /\ req[r].videoPath.id # req[r].videoId
        /\ req[r].error = ""

\* C12: when downloadVideo has caught the tool-not-installed error of a
\* missing binary, the platform fallback is not attempted, for any URL.
C12_MissingToolIsFatal ==
    \A r \in Requests :
        req[r].primaryError = "yt-dlp is not installed" => req[r].nFallback = 0

\* C13: when yt-dlp has exited with code 0 and no file of the run was
\* found, downloadVideo makes no further acquisition attempt, for any URL.
C13_LostFileIsFatal ==
    \A r \in Requests :
        req[r].primaryError = "Video download completed but file not found"
        => (req[r].pc # "fallback" /\ req[r].nFallback = 0)

\* A service call that failed, and one that gave a reply with a JSON span
\* that decodes.
ServiceFailed(reply) == reply.kind = "error"

Parsable(reply) == reply.kind = "text" /\ ~tryKey(reply).threw

Unparsable(reply) == reply.kind = "text" /\ tryKey(reply).threw

\* C14: with N >= 1 keys, while the service calls so far have all failed
\* and keys remain, extractRecipe is calling the service with the next key
\* and has thrown nothing; when the first N-1 calls failed and the last one
\* gave a parsable reply, extractRecipe has returned the recipe parsed from
\* that reply.
C14_LastKeySucceeds ==
    LET n == Len(apiKeys)
        m == Len(ex.replies)
    IN (n >= 1 /\ ex.fileRead)
       => /\ (m < n /\ \A k \in 1..m : ServiceFailed(ex.replies[k]))
                => (ex.pc = "call" /\ ex.error = "" /\ ex.nService = m + 1)
          /\ (m = n /\ Parsable(ex.replies[n])
                   /\ \A k \in 1..(n - 1) : ServiceFailed(ex.replies[k]))
                => /\ ex.pc = "returned"
                   /\ ex.result = JSONparse(jsonMatch(ex.replies[n].text)).recipe
                   /\ ex.error = ""

\* With two keys, the call with the first failed and the call with the
\* second gave a parsable reply: extractRecipe has returned.
C14_Witness ==
    /\ Len(apiKeys) = 2 /\ Len(ex.replies) = 2
    /\ ServiceFailed(ex.replies[1]) /\ Parsable(ex.replies[2])
    /\ ex.pc = "returned" /\ ex.result \in Recipes

\* C15: with no key configured, a call of extractRecipe has thrown the
\* not-configured error before reading the video, without entering the loop
\* and without a service call.
C15_NotConfiguredFailsAtOnce ==
    (Len(apiKeys) = 0 /\ ex.calls >= 1)
    => /\ ex.pc = "threw"
       /\ ex.error = "GEMINI_API_KEY is not configured"
       /\ ex.nService = 0 /\ ex.replies = << >> /\ ex.i = 0
       /\ ~ex.fileRead

C15_Witness ==
    /\ Len(apiKeys) = 0 /\ ex.calls = 1
    /\ ex.pc = "threw" /\ ex.nService = 0

\* C16: after a reply that holds no '{'...'}' span or whose span does not
\* decode, extractRecipe has thrown and has tried no further key.
C16_ParseFailureIsTerminal ==
    \A k \in 1..Len(ex.replies) :
        Unparsable(ex.replies[k])
        => (ex.pc = "threw" /\ Len(ex.replies) = k /\ ex.nService = k)

\* C17: when the service call has failed for every configured key,
\* extractRecipe has thrown the error of the call with the last key.
C17_ThrowsLastFailure ==
    LET n == Len(apiKeys)
    IN (n >= 1 /\ Len(ex.replies) = n /\ \A k \in 1..n : ServiceFailed(ex.replies[k]))
       => (ex.pc = "threw" /\ ex.error = ex.replies[n].message)

\* Two keys failed with different errors and the second one was thrown.
C17_Witness ==
    /\ Len(apiKeys) = 2 /\ Len(ex.replies) = 2
    /\ ServiceFailed(ex.replies[1]) /\ ServiceFailed(ex.replies[2])
    /\ ex.replies[1].message # ex.replies[2].message
    /\ ex.pc = "threw" /\ ex.error = ex.replies[2].message

\* The platform markers of the claims.
ClaimMarkers ==
    {"tiktok.com", "youtube.com/shorts", "youtu.be", "instagram.com/reel", "instagram.com/p"}

OffPlatform(url) == \A m \in ClaimMarkers : ~includes(url, m)

\* C18: a request whose URL contains none of the platform markers has its
\* response as soon as it is received: status 400, success: false, an error
\* message, and neither downloadVideo nor extractRecipe was called for it.
C18_UnsupportedRejectedAtOnce ==
    \A r \in Requests :
        (req[r].pc # "idle" /\ OffPlatform(req[r].url))
        => /\ Finished(r)
           /\ req[r].resp.status = 400 /\ ~req[r].resp.success
           /\ req[r].resp.error # ""
           /\ req[r].nDownload = 0 /\ req[r].nExtract = 0 /\ req[r].ids = {}

C18_Witness ==
    \E r \in Requests :
        /\ Finished(r) /\ req[r].url = <<"example.com", "/v">>
        /\ req[r].resp.status = 400 /\ req[r].resp.error = "Unsupported platform"

\* A failure response: success: false, an error message, no recipe.
FailureShaped(resp) ==
    /\ ~resp.success /\ resp.status \in {400, 500}
    /\ resp.error # "" /\ resp.recipe = NoRecipe /\ resp.cached = "absent"

\* A success response: success: true, a recipe, no error message.
SuccessShaped(resp) ==
    /\ resp.success /\ resp.status = 200
    /\ resp.error = "" /\ resp.recipe \in Recipes

\* C19: the response a request ends with is either a failure response,
\* with an error message and no recipe, or a success response whose recipe
\* is the one its extraction returned or the one the cache held for its
\* key; a response, once sent, does not change.
C19_ResponseShape ==
    [][\A r \in Requests :
          /\ (req[r].pc = "done") => (req'[r].pc = "done" /\ req'[r].resp = req[r].resp)
          /\ (req[r].pc # "done" /\ req'[r].pc = "done")
                => \/ FailureShaped(req'[r].resp)
                   \/ /\ SuccessShaped(req'[r].resp)
                      /\ \/ /\ req[r].pc = "store" /\ req[r].nExtract = 1
                            /\ req'[r].resp.recipe = req[r].recipe
                         \/ /\ req[r].pc = "idle" /\ req'[r].nExtract = 0
                            /\ \E i \in 1..Len(recipeCache) :
                                  /\ recipeCache[i].key = ClaimKey(req'[r].url)
                                  /\ recipeCache[i].recipe = req'[r].resp.recipe
          /\ (req'[r].pc # "done") => req'[r].resp = NoResponse]_vars

\* One request failed after its extraction had returned a recipe, and its
\* response carries none; another one succeeded.
C19_Witness ==
    \E r1 \in Requests, r2 \in Requests :
        /\ Finished(r1) /\ req[r1].recipe \in Recipes
        /\ FailureShaped(req[r1].resp) /\ req[r1].resp.error = "TypeError"
        /\ Finished(r2) /\ SuccessShaped(req[r2].resp)

\* C20 as stated: every success response carries a boolean cached, true
\* exactly when the recipe came from the cache.
C20_CachedIsBoolean ==
    \A r \in Requests :
        (Finished(r) /\ req[r].resp.success)
        => /\ req[r].resp.cached \in {"true", "false"}
           /\ req[r].resp.cached = "true" <=> req[r].nExtract = 0

\* C20 as amended: a success response carries cached: true when the recipe
\* came from the cache, and no cached field when it was freshly extracted.
C20_CachedOnlyOnHit ==
    \A r \in Requests :
        (Finished(r) /\ req[r].resp.success)
        => IF req[r].nExtract = 0
           THEN req[r].resp.cached = "true"
           ELSE req[r].resp.cached = "absent"

\* One request was answered after its extraction and another from the
\* cache.
C20_Witness ==
    \E r1 \in Requests, r2 \in Requests :
        /\ Finished(r1) /\ req[r1].resp.success /\ req[r1].nExtract = 1
        /\ req[r1].resp.cached = "absent"
        /\ Finished(r2) /\ req[r2].resp.success /\ req[r2].nExtract = 0
        /\ req[r2].resp.cached = "true"

\* C21: a request whose deletion of the video file failed ends with the
\* response of its extraction (the recipe, or the original error), and
\* unlinkSync is not called on the file a second time.
C21_FailedDeletionNotRetried ==
    \A r \in Requests :
        (Finished(r) /\ req[r].nUnlinkFailed >= 1)
        => /\ req[r].nUnlink + req[r].nUnlinkFailed = 1
           /\ IF req[r].resp.success
              THEN req[r].resp.recipe = req[r].recipe
              ELSE req[r].resp.error \in {"extraction failed", "TypeError"}

\* The cache entry request r writes for its URL.
WrittenBy(r, t) ==
    [key |-> ClaimKey(req[r].url), recipe |-> req[r].recipe, timestamp |-> t]

Entries(cache) == {cache[i] : i \in 1..Len(cache)}

\* C22: on the cache-miss path extractRecipe begins only after
\* downloadVideo has returned a file, the cache is written only by a
\* request whose extractRecipe has returned a recipe, and the ledger is
\* updated on this path only in a step that has written the cache; a
\* request whose download or extraction failed writes neither.
C22_StepsInOrder ==
    [][\A r \in Requests :
          /\ (req'[r].nExtract >= 1)
                => (req'[r].videoPath # NoFile /\ req'[r].pc \notin {"ytdlp", "fallback"})
          /\ (req'[r].pc = "store")
                => (req'[r].nExtract = 1 /\ req'[r].recipe \in Recipes)
          /\ (req'[r].pc \in {"ytdlp", "fallback", "extract"})
                => req'[r].recipe = NoRecipe
          /\ (req[r].pc # req'[r].pc /\ req[r].pc # "store")
                => Entries(recipeCache') \subseteq Entries(recipeCache)
          /\ (req[r].pc # req'[r].pc /\ req[r].pc \notin {"store", "idle"})
                => recentRecipes' = recentRecipes
          /\ (req[r].pc = "store" /\ req'[r].pc # "store")
                => /\ req[r].videoPath # NoFile /\ req[r].nExtract = 1
                   /\ WrittenBy(r, now) \in Entries(recipeCache')
                   /\ req'[r].pc = "done"
                         => /\ recentRecipes' # << >>
                            /\ recentRecipes'[1].recipe = req[r].recipe
                            /\ recentRecipes'[1].url = req[r].url]_vars

\* One request failed at its extraction and wrote nothing; another one
\* went through download, extraction, cache write and ledger update.
C22_Witness ==
    \E r1 \in Requests, r2 \in Requests :
        /\ Finished(r1) /\ req[r1].error = "extraction failed"
        /\ Finished(r2) /\ req[r2].resp.success /\ req[r2].nExtract = 1
        /\ Len(recipeCache) = 1 /\ Len(recentRecipes) = 1
        /\ recipeCache[1] = WrittenBy(r2, now)
        /\ recentRecipes[1].url = req[r2].url

\* C23: downloadTikTokFallback is called only from a downloadVideo call
\* whose primary strategy has failed and whose URL contains 'tiktok.com',
\* never after the primary strategy returned a file, and at most once.
C23_FallbackOnlyAfterPrimaryFailure ==
    [][\A r \in Requests :
          /\ req'[r].nFallback <= 1
          /\ (req'[r].nFallback > req[r].nFallback)
                => /\ req[r].pc = "ytdlp" /\ req'[r].pc = "fallback"
                   /\ req'[r].primaryError # ""
                   /\ req'[r].videoPath = NoFile
                   /\ includes(req[r].url, "tiktok.com")
          /\ (req[r].pc = "ytdlp" /\ req'[r].videoPath # NoFile)
                => (req'[r].nFallback = 0 /\ req'[r].pc = "extract")
          /\ (req[r].pc = "fallback") => req'[r].pc \in {"fallback", "extract", "done"}]_vars

\* The fallback of a TikTok request is under way after its primary
\* strategy failed with a nonzero exit.
C23_Witness ==
    \E r \in Requests :
        /\ req[r].pc = "fallback" /\ req[r].nFallback = 1
        /\ req[r].primaryError = "yt-dlp failed"
        /\ includes(req[r].url, "tiktok.com")

\* C24: the service calls of one extractRecipe call use the configured
\* keys in their order, each at most once; after a failure of any kind,
\* rate limit or not, the next key is tried while one remains; and once a
\* reply has been parsed extractRecipe has returned and calls the service
\* no more.
C24_KeysInOrder ==
    LET n == Len(apiKeys)
        m == Len(ex.replies)
    IN /\ Len(ex.tried) = ex.nService
       /\ ex.tried = SubSeq(apiKeys, 1, Len(ex.tried))
       /\ ex.nService = m + (IF ex.pc = "call" THEN 1 ELSE 0)
       /\ \A k \in 1..(m - 1) : tryKey(ex.replies[k]).threw
       /\ (m >= 1 /\ ~tryKey(ex.replies[m]).threw) => ex.pc = "returned"
       /\ (m >= 1 /\ m < n /\ tryKey(ex.replies[m]).threw) => ex.pc = "call"

\* The first key failed with an error that is no rate limit, the second
\* key was tried and its reply parsed.
C24_Witness ==
    /\ ex.tried = <<"GEMINI_API_KEY", "GEMINI_API_KEY_2">>
    /\ ex.replies[1].kind = "error" /\ ex.replies[1].message = "503 Service Unavailable"
    /\ Len(ex.replies) = 2 /\ ex.pc = "returned"

\* The keys of the ledger entries.
LedgerKeys(ledger) == {ClaimKey(ledger[i].url) : i \in 1..Len(ledger)}

\* C25: a request that ends with a success response has its entry at the
\* head of the ledger, and an entry leaves the ledger only when an entry of
\* the same key takes its place or when it is the last of MAX_RECENT
\* entries and a new entry pushes it out.
C25_EntriesLeaveOnlyByBound ==
    [][/\ \A r \in Requests :
             (req[r].pc # "done" /\ req'[r].pc = "done" /\ req'[r].resp.success)
             => (recentRecipes' # << >> /\ recentRecipes'[1].url = req'[r].url)
       /\ \A i \in 1..Len(recentRecipes) :
             \/ ClaimKey(recentRecipes[i].url) \in LedgerKeys(recentRecipes')
             \/ /\ i = MAX_RECENT
                /\ Len(recentRecipes') = MAX_RECENT]_vars

\* The ledger without its entries of one key, order kept.
Without(ledger, key) == SelectSeq(ledger, LAMBDA e : ClaimKey(e.url) # key)

\* C26: the ledger is ordered by recording time, latest first: whenever it
\* changes, either only the entry of the recorded URL was taken out, or the
\* new entry stands at the head with the current time, the other entries
\* follow in their old order, and the one entry dropped at the bound is the
\* old last one.
C26_MostRecentFirst ==
    [][/\ \A i \in 1..Len(recentRecipes'), j \in 1..Len(recentRecipes') :
             i < j => recentRecipes'[i].id >= recentRecipes'[j].id
       /\ (recentRecipes' # recentRecipes)
             => \E u \in Urls :
                   LET rest == Without(recentRecipes, ClaimKey(u))
                   IN \/ recentRecipes' = rest
                      \/ /\ recentRecipes' # << >>
                         /\ recentRecipes'[1].url = u
                         /\ recentRecipes'[1].id = now
                         /\ Tail(recentRecipes') =
                               IF Len(rest) >= MAX_RECENT
                               THEN SubSeq(rest, 1, MAX_RECENT - 1)
                               ELSE rest]_vars

\* A new URL was recorded in the full ledger: it is at the head and the
\* least recently recorded entry is gone.
C26_Witness ==
    /\ Len(recentRecipes) = MAX_RECENT
    /\ recentRecipes[1].url \in Urls
    /\ recentRecipes[2].url = FillerUrl(MAX_CACHE_SIZE)
    /\ recentRecipes[MAX_RECENT].url = FillerUrl(MAX_CACHE_SIZE - MAX_RECENT + 2)

\* The ids of the seed entries, in their order.
SeedIds == <<"example-tiktok", "example-instagram", "example-youtube">>

\* C27: the response of GET /api/recent is the live ledger followed by
\* the three seed entries in their order, whatever the ledger holds: the
\* seeds are all there when the ledger is full and when a live entry has
\* the key of a seed.
C27_SeedsFollowLedger ==
    LET recipes == getRecent(recentRecipes).recipes
        n == Len(recentRecipes)
    IN /\ getRecent(recentRecipes).success
       /\ Len(recipes) = n + Len(SeedIds)
       /\ SubSeq(recipes, 1, n) = recentRecipes
       /\ \A i \in 1..Len(SeedIds) :
             recipes[n + i].id = SeedIds[i] /\ recipes[n + i].isExample

\* The ledger is full and its head entry has the key of the first seed.
C27_Witness ==
    /\ Len(recentRecipes) = MAX_RECENT
    /\ ClaimKey(recentRecipes[1].url) = ClaimKey(defaultRecipes[1].url)
    /\ Len(getRecent(recentRecipes).recipes) = MAX_RECENT + Len(SeedIds)

\* The cache without its entries of one key, order kept.
CacheWithout(cache, key) == SelectSeq(cache, LAMBDA e : e.key # key)

\* C28: a read that hits leaves the cache as it is, order included; and a
\* cacheRecipe call on a cache of MAX_CACHE_SIZE entries removes the first
\* entry in insertion order and leaves the other entries in their order.
C28_OldestInsertedEvicted ==
    [][/\ \A u \in {FillerUrl(1), FillerUrl(MAX_CACHE_SIZE), <<"tiktok.com", "/V">>} :
             LET g == getCachedRecipe(recipeCache, u, now)
             IN g.hit => g.cache = recipeCache
       /\ \A r \in Requests :
             ( /\ req[r].pc = "store" /\ req'[r].pc # "store"
               /\ Len(recipeCache) = MAX_CACHE_SIZE )
             => /\ CacheWithout(recipeCache', ClaimKey(req[r].url))
                      = CacheWithout(Tail(recipeCache), ClaimKey(req[r].url))
                /\ recipeCache[1].key # ClaimKey(req[r].url)
                      => recipeCache[1] \notin Entries(recipeCache')]_vars

\* A request has written a new key into the full cache: the first entry
\* is gone, the second one is now first, the new one is last.
C28_Witness ==
    /\ Len(recipeCache) = MAX_CACHE_SIZE
    /\ recipeCache[1].key = ClaimKey(FillerUrl(2))
    /\ \E r \in Requests :
          /\ Finished(r) /\ req[r].resp.success /\ req[r].nExtract = 1
          /\ recipeCache[MAX_CACHE_SIZE].key = ClaimKey(req[r].url)

InFlight(r) == req[r].pc \in {"ytdlp", "fallback", "extract", "store"}

\* C29: a request for a supported URL whose key is not cached goes on to
\* downloadVideo also when another request for the same key is in flight:
\* nothing makes it wait for, or share, the other request's work.
C29_NoSingleFlight ==
    [][\A r \in Requests, o \in Requests :
          ( /\ r # o /\ InFlight(o)
            /\ req[r].pc = "idle" /\ req'[r].pc # "idle"
            /\ ClaimKey(req'[r].url) = ClaimKey(req[o].url)
            /\ StoredAt(req[o].url) = {} )
          => (req'[r].pc = "ytdlp" /\ req'[r].nDownload = 1)]_vars

\* Two requests for one key have both downloaded and both extracted.
C29_Witness ==
    \E r \in Requests, o \in Requests :
        /\ r # o
        /\ ClaimKey(req[r].url) = ClaimKey(req[o].url)
        /\ req[r].nDownload = 1 /\ req[o].nDownload = 1
        /\ req[r].nExtract = 1 /\ req[o].nExtract = 1
        /\ req[r].pc = "store" /\ req[o].pc = "store"

\* C30: after a request has written the cache, the cache holds one entry
\* for the key of its URL, and that entry is exactly the recipe of this
\* request with the time of this write.
C30_LastWriteWins ==
    [][\A r \in Requests :
          (req[r].pc = "store" /\ req'[r].pc # "store")
          => LET k == ClaimKey(req[r].url)
                 at == {i \in 1..Len(recipeCache') : recipeCache'[i].key = k}
             IN /\ Cardinality(at) = 1
                /\ \A i \in at : recipeCache'[i] = WrittenBy(r, now)]_vars

\* Two requests for one key have written the cache with different
\* recipes at different times: the entry is the one of the later write.
C30_Witness ==
    \E r \in Requests, o \in Requests :
        /\ Finished(r) /\ Finished(o)
        /\ req[r].nExtract = 1 /\ req[o].nExtract = 1
        /\ ClaimKey(req[r].url) = ClaimKey(req[o].url)
        /\ req[r].recipe # req[o].recipe /\ req[r].recipe \in Recipes
        /\ now > 0
        /\ \E i \in 1..Len(recipeCache) :
              /\ recipeCache[i] = WrittenBy(o, now)
              /\ recipeCache[i] # WrittenBy(r, 0)
        /\ Cardinality(StoredAt(req[o].url)) = 1

\* The URLs the sweep claims read and write.
SweepUrls == {<<"tiktok.com", "/V">>, <<"youtu.be", "/v">>}

\* What a caller of getCachedRecipe sees.
Seen(g) == <<g.hit, g.recipe>>

\* C31 as stated: a run of the sweep is never observable through
\* getCachedRecipe, whatever the requests do after it; in particular a
\* read that follows one cache write returns the same result whether or
\* not the sweep ran before the write.
C31_SweepNeverObserved ==
    \A u \in SweepUrls, v \in SweepUrls :
        Seen(getCachedRecipe(
                cacheRecipe(cleanupCache(recipeCache, now), u, FillerRecipe, now), v, now))
        = Seen(getCachedRecipe(cacheRecipe(recipeCache, u, FillerRecipe, now), v, now))

\* C31, amended: a read returns the same result on the swept cache as on
\* the unswept one, at the time of the sweep and at any later time, and
\* the sweep removes exactly the entries older than the TTL.
C31_SweepInvisibleToNextRead ==
    LET swept == cleanupCache(recipeCache, now)
    IN /\ \A v \in SweepUrls \cup {FillerUrl(2)}, d \in {0, 1} :
              Seen(getCachedRecipe(swept, v, now + d))
              = Seen(getCachedRecipe(recipeCache, v, now + d))
       /\ Entries(swept)
             = {e \in Entries(recipeCache) : now - e.timestamp <= CACHE_TTL_MS}

\* The cache holds entries at the last instant of their life, or entries
\* past it next to a younger one.
C31_Witness ==
    /\ \E i \in 1..Len(recipeCache) : now - recipeCache[i].timestamp = CACHE_TTL_MS
    /\ Len(recipeCache) > 1

\* The sweep has entries to remove while a younger entry stays.
C31_WitnessSwept ==
    /\ \E i \in 1..Len(recipeCache) : now - recipeCache[i].timestamp > CACHE_TTL_MS
    /\ \E i \in 1..Len(recipeCache) : now - recipeCache[i].timestamp <= CACHE_TTL_MS

C33_FilesNotShared ==
    [][\A r \in Requests, o \in Requests :
          (r # o)
          => /\ req'[r].ids \cap req'[o].ids = {}
             /\ (req'[r].videoPath # NoFile) => (req'[r].videoPath # req'[o].videoPath)
             /\ (req'[o] = req[o])
                   => \A f \in (tempDir \ tempDir') \cup (tempDir' \ tempDir) :
                          /\ f.id \notin req[o].ids
                          /\ f # req[o].videoPath]_vars

\* Two requests are at their extraction at the same time, each with its
\* own file in TEMP_DIR, one from yt-dlp and one from the fallback.
C33_Witness ==
    \E r \in Requests, o \in Requests :
        /\ req[r].pc = "extract" /\ req[o].pc = "extract"
        /\ req[r].videoPath \in tempDir /\ req[o].videoPath \in tempDir
        /\ req[r].videoPath # req[o].videoPath
        /\ req[r].nFallback = 0 /\ req[o].nFallback = 1

\* C34: the step in which a request turns to its failure response adds
\* no entry to the cache and changes none: the cache is written only by
\* requests that respond success: true, also when the ledger update that
\* follows the cache write throws.
C34_FailureLeavesCacheUnwritten ==
    [][\A r \in Requests :
          ( /\ req[r].pc \notin {"catch", "done"}
            /\ req'[r].pc \in {"catch", "done"}
            /\ ~req'[r].resp.success )
          => Entries(recipeCache') \subseteq Entries(recipeCache)]_vars

\* C35: a request whose URL passes the platform validation and whose key
\* has an unexpired cache entry is answered at once with success: true,
\* cached: true and the stored recipe; it never ends in a failure.
C35_HitAlwaysSucceeds ==
    [][\A r \in Requests :
          (req[r].pc = "idle" /\ req'[r].pc # "idle" /\ ~OffPlatform(req'[r].url))
          => \A i \in 1..Len(recipeCache) :
                ( /\ recipeCache[i].key = ClaimKey(req'[r].url)
                  /\ now - recipeCache[i].timestamp <= CACHE_TTL_MS )
                => /\ req'[r].pc = "done"
                   /\ req'[r].resp.success
                   /\ req'[r].resp.cached = "true"
                   /\ req'[r].resp.recipe = recipeCache[i].recipe]_vars

\* C36: a cacheRecipe call removes an entry of another key only when its
\* own key is not yet stored and the cache holds MAX_CACHE_SIZE entries;
\* a write of a stored key evicts nothing, and no call leaves fewer
\* entries than it found.
C36_EvictsOnlyToMakeRoom ==
    [][\A r \in Requests :
          (req[r].pc = "store" /\ req'[r].pc # "store")
          => LET k == ClaimKey(req[r].url)
                 stored == \E i \in 1..Len(recipeCache) : recipeCache[i].key = k
                 gone == {e \in Entries(recipeCache) :
                             /\ e.key # k
                             /\ \A j \in 1..Len(recipeCache') : recipeCache'[j].key # e.key}
             IN /\ Len(recipeCache') >= Len(recipeCache)
                /\ (gone # {}) => (~stored /\ Len(recipeCache) = MAX_CACHE_SIZE)]_vars

\* C37: the cache write and the ledger update of a successful cache-miss
\* request happen in one step, in which no other request moves and the
\* sweep removes nothing: right after it the head ledger entry holds the
\* recipe of the cache entry for the key of the request's URL.
C37_WriteAndLedgerTogether ==
    [][\A r \in Requests :
          (req[r].pc = "store" /\ req'[r].pc = "done" /\ req'[r].resp.success)
          => LET k == ClaimKey(req[r].url)
                 at == {i \in 1..Len(recipeCache') : recipeCache'[i].key = k}
             IN /\ Cardinality(at) = 1
                /\ recentRecipes' # << >>
                /\ \A i \in at :
                      /\ recipeCache'[i].recipe = recentRecipes'[1].recipe
                      /\ recipeCache'[i].timestamp = now
                /\ ClaimKey(recentRecipes'[1].url) = k
                /\ recentRecipes'[1].id = now
                /\ \A o \in Requests \ {r} : req'[o] = req[o]
                /\ \A e \in Entries(recipeCache) \ Entries(recipeCache') :
                      e.key = k \/ e = recipeCache[1]]_vars

\* A request has written the cache and the ledger while another request
\* was in flight and the cache held entries the sweep would remove.
C37_Witness ==
    \E r \in Requests, o \in Requests :
        /\ Finished(r) /\ req[r].resp.success /\ req[r].nExtract = 1
        /\ InFlight(o)
        /\ recentRecipes # << >>
        /\ recentRecipes[1].url = req[r].url
        /\ recentRecipes[1].id = now
        /\ \E i \in 1..Len(recipeCache) : now - recipeCache[i].timestamp > CACHE_TTL_MS
        /\ \E i \in 1..Len(recipeCache) :
              /\ recipeCache[i].key = ClaimKey(req[r].url)
              /\ recipeCache[i].recipe = recentRecipes[1].recipe

\* The handler of request r is waiting: for yt-dlp, the fallback's
\* fetches, the analysis service, or the awaited cleanupVideo.
Pending(r) == req[r].pc \in {"ytdlp", "fallback", "extract", "store", "catch"}

\* C38: a request that has been received and has nothing left to wait
\* for has been answered, with one response; no request is left without
\* a response once its handler has ended.
C38_EveryRequestAnswered ==
    \A r \in Requests :
        (req[r].pc # "idle" /\ ~Pending(r))
        => /\ req[r].pc = "done"
           /\ req[r].resp.status \in {200, 400, 500}

\* C39: no two entries of the live ledger have the same id, also when
\* they were recorded at the same reading of the clock.
C39_LedgerIdsDistinct ==
    \A i \in 1..Len(recentRecipes), j \in 1..Len(recentRecipes) :
        (i # j) => (recentRecipes[i].id # recentRecipes[j].id)

====
